---- MODULE Spec2Model ----
(***************************************************************************)
(* Model of the tax agent: the advisory dialogue engine and threshold      *)
(* evaluator (tax-agent-backend/agent/advisor.py), the session memory      *)
(* (agent/memory.py), the request handlers (tax-agent-backend/main.py)    *)
(* and the extractor service (pdf-extractor-service/main.py): the text     *)
(* normalizer clean_text, the field extractor parse_german_tax_document,   *)
(* the extraction pipeline and the endpoint extract_pdfs.                  *)
(*                                                                         *)
(* Python values are tagged records [t, v]: an int n is IntV(n), a numeric *)
(* string "n" is StrV(n), None is PyNone and a key that a dict does not    *)
(* hold is Absent.  Message texts are abstracted to tokens; MarkerIn tells *)
(* which tokens contain the literal "Here's a quick summary".              *)
(***************************************************************************)
EXTENDS Integers, Sequences, FiniteSets, TLC

VARIABLES conversation_history, extracted_data, user_data, filed_years,
          memory_data, ret, clients, owners, advised,
          text_in, text_once, text_twice, clean_pc,
          document, parsed,
          api_key, upload, reply,
          files, cursor, workers, results, counters, response

\* the text under normalization: the raw text, clean_text of it, clean_text
\* of that, and how far the normalization has got
text_vars == <<text_in, text_once, text_twice, clean_pc>>

\* the advisor, the memory, the last operation's result, the client
\* sessions that are connected, the ones whose requests the advisor and
\* the memory have served, and whether a response has carried the refund
\* statement or a reply of the oracle
advisor_vars == <<conversation_history, extracted_data, user_data,
                  filed_years, memory_data, ret, clients, owners,
                  advised>>

\* the document text handed to the field extractor and what it returned
parse_vars == <<document, parsed>>

\* whether OPENAI_API_KEY is set, the uploaded file and what the last call
\* into the extraction pipeline returned
service_vars == <<api_key, upload, reply>>

\* the /extract endpoint: the uploaded files, the file the handler is at,
\* the extraction thread of each file, the results list, the running
\* counters and the HTTP response
endpoint_vars == <<files, cursor, workers, results, counters, response>>

\* the extractor service
extractor_vars == <<parse_vars, service_vars, endpoint_vars>>

vars == <<conversation_history, extracted_data, user_data, filed_years,
          memory_data, ret, clients, owners, advised,
          text_in, text_once, text_twice, clean_pc,
          document, parsed, api_key, upload, reply,
          files, cursor, workers, results, counters, response>>

----------------------------------------------------------------------------
(* Bounds *)

MaxHistory == 3
MaxLen == 7

----------------------------------------------------------------------------
(* Python values *)

Absent == [t |-> "absent", v |-> 0]
PyNone == [t |-> "none", v |-> 0]
IntV(n) == [t |-> "int", v |-> n]
StrV(n) == [t |-> "str", v |-> n]

\* dict.get(key): None when the key is missing
Get(d, k) == IF d[k] = Absent THEN PyNone ELSE d[k]

\* dict.get(key, default)
GetDefault(d, k, default) == IF d[k] = Absent THEN default ELSE d[k]

\* truth value of a Python object: None, 0 and "" are false
Truthy(x) == \/ x.t = "int" /\ x.v # 0
             \/ x.t = "str"

\* the records that set_extracted_data is fed: year an integer, a numeric
\* string or absent; gross income and income tax paid a number or absent;
\* or the {"fallback": content} record of DocumentProcessor.extract
Years == {Absent, IntV(2021), IntV(1999), StrV(2021)}
Incomes == {Absent, IntV(5000), IntV(9744), IntV(15000)}
Taxes == {Absent, IntV(16)}

FallbackRecord ==
    [year |-> Absent, gross_income |-> Absent, income_tax_paid |-> Absent,
     fallback |-> StrV(0)]

Records ==
    [year : Years, gross_income : Incomes, income_tax_paid : Taxes,
     fallback : {Absent}] \cup {FallbackRecord}

EmptyDict ==
    [year |-> Absent, gross_income |-> Absent, income_tax_paid |-> Absent,
     fallback |-> Absent]

EmptyUserData ==
    [year |-> Absent, gross_income |-> Absent, income_tax_paid |-> Absent]

----------------------------------------------------------------------------
(* Message texts *)

UserMessages == {"u_answer"}
Replies == {"r_question", "r_quotes_summary"}

\* "Here's a quick summary" in content
MarkerIn(c) == c \in {"summary", "r_quotes_summary"}

Msg(role, content) == [role |-> role, content |-> content]

\* outcomes of openai.chat.completions.create
OracleOutcomes ==
    {[t |-> "reply", c |-> r] : r \in Replies}
        \cup {[t |-> "empty", c |-> ""], [t |-> "timeout", c |-> ""],
              [t |-> "service_error", c |-> ""]}

\* the oracle was not reached
NotCalled == [t |-> "not_called", c |-> ""]

----------------------------------------------------------------------------
(* TaxAdvisor *)

TAX_FREE_THRESHOLDS ==
    (2017 :> 8820) @@ (2018 :> 9000) @@ (2019 :> 9168) @@ (2020 :> 9408)
        @@ (2021 :> 9744) @@ (2022 :> 10347) @@ (2023 :> 10908)
        @@ (2024 :> 11604) @@ (2025 :> 12300)

\* int(year) succeeds on an int and on a numeric string
IntConvertible(x) == x.t \in {"int", "str"}

\* variant: the comparison with the threshold is not strict
is_below_threshold_le(ud) ==
    LET year == Get(ud, "year")
        gross_income == GetDefault(ud, "gross_income", IntV(0))
    IN  IF ~IntConvertible(year)
        THEN FALSE
        ELSE IF year.v \in DOMAIN TAX_FREE_THRESHOLDS /\ gross_income # PyNone
             THEN gross_income.v <= TAX_FREE_THRESHOLDS[year.v]
             ELSE FALSE

\* TaxAdvisor._is_below_threshold
is_below_threshold(ud) ==
    LET year == Get(ud, "year")
        gross_income == GetDefault(ud, "gross_income", IntV(0))
    IN  IF ~IntConvertible(year)
        THEN FALSE
        ELSE IF year.v \in DOMAIN TAX_FREE_THRESHOLDS /\ gross_income # PyNone
             THEN gross_income.v < TAX_FREE_THRESHOLDS[year.v]
             ELSE FALSE

\* TaxAdvisor._early_exit_summary: the dict is indexed by the raw year, the
\* refund is formatted with :.2f
early_exit_summary(ud) ==
    LET year == Get(ud, "year")
        refund == GetDefault(ud, "income_tax_paid", IntV(0))
    IN  IF ~(year.t = "int" /\ year.v \in DOMAIN TAX_FREE_THRESHOLDS)
        THEN [kind |-> "raise", exc |-> "KeyError", content |-> ""]
        ELSE IF refund = PyNone
             THEN [kind |-> "raise", exc |-> "TypeError", content |-> ""]
             ELSE [kind |-> "refund", exc |-> "none", content |-> "refund"]

\* TaxAdvisor._build_initial_summary
build_initial_summary(ed) ==
    IF ed.fallback # Absent THEN "fallback_summary" ELSE "summary"

\* any("Here's a quick summary" in msg['content'] ... if role == assistant)
SummaryPresent(h) ==
    \E i \in 1..Len(h) : h[i].role = "assistant" /\ MarkerIn(h[i].content)

\* variant: the summary is appended instead of inserted at the head
InsertSummary_append(h, summary) == Append(h, Msg("assistant", summary))

\* history after self.conversation_history.insert(0, summary message)
InsertSummary(h, summary) == <<Msg("assistant", summary)>> \o h

\* variant: the reply is stored under the role of the system instruction
AddAgentMessage_system(h, m) == Append(h, Msg("system", m))

\* history after add_agent_message(advisor_reply)
AddAgentMessage(h, m) == Append(h, Msg("assistant", m))

\* variant: the history is started over with the message
AddUserMessage_restart(h, m) == <<Msg("user", m)>>

\* history after add_user_message(message)
AddUserMessage(h, m) == Append(h, Msg("user", m))

\* sorted(list(self.filed_years)) raises on a set mixing int and str
SortRaises(fy) == \E a \in fy, b \in fy : a.t # b.t

\* user_data after set_extracted_data(data)
UserDataAfter(ud, data) ==
    [year |-> IF Truthy(Get(data, "year")) THEN data.year ELSE ud.year,
     gross_income |-> Get(data, "gross_income"),
     income_tax_paid |-> Get(data, "income_tax_paid")]

\* variant: the set is rebuilt from the new record's year
FiledYearsAfter_replace(fy, data) ==
    IF Truthy(Get(data, "year")) THEN {data.year} ELSE fy

\* filed_years after set_extracted_data(data)
FiledYearsAfter(fy, data) ==
    IF Truthy(Get(data, "year")) THEN fy \cup {data.year} ELSE fy

\* Memory.store_data: dict.update
StoreData(md, data) ==
    [k \in DOMAIN md |-> IF data[k] # Absent THEN data[k] ELSE md[k]]

\* the result of next_advisor_message on history h: what is returned or
\* raised, whether the oracle was called, and the history afterwards
NextAdvisorResult(h, ud, ed, fy, o) ==
    IF is_below_threshold(ud)
    THEN LET e == early_exit_summary(ud)
         IN  [kind |-> e.kind, exc |-> e.exc, content |-> e.content,
              oracle |-> NotCalled, hist |-> h]
    ELSE IF ~SummaryPresent(h)
    THEN LET summary == build_initial_summary(ed)
         IN  [kind |-> "summary", exc |-> "none", content |-> summary,
              oracle |-> NotCalled, hist |-> InsertSummary(h, summary)]
    ELSE IF SortRaises(fy)
    THEN [kind |-> "raise", exc |-> "TypeError", content |-> "",
          oracle |-> NotCalled, hist |-> h]
    ELSE IF o.t \in {"timeout", "service_error"}
    THEN [kind |-> "raise", exc |-> o.t, content |-> "",
          oracle |-> o, hist |-> h]
    ELSE IF o.t = "reply"
    THEN [kind |-> "reply", exc |-> "none", content |-> o.c,
          oracle |-> o, hist |-> AddAgentMessage(h, o.c)]
    ELSE [kind |-> "sentinel", exc |-> "none", content |-> "sentinel",
          oracle |-> o, hist |-> h]

\* the operations that end in next_advisor_message
AdvisorTurns == {"next_advisor_message", "generate_questions", "fill_form"}

\* the advisor as __init__ leaves it
FreshAdvisor ==
    /\ conversation_history = <<>>
    /\ extracted_data = EmptyDict
    /\ user_data = EmptyUserData
    /\ filed_years = {}

\* what the last operation was and what it returned
Ret(op, kind, exc, content, oracle) ==
    [op |-> op, kind |-> kind, exc |-> exc, content |-> content,
     oracle |-> oracle,
     hist_before |-> IF op \in AdvisorTurns THEN conversation_history
                     ELSE <<>>,
     fresh |-> FreshAdvisor, done |-> FALSE]

\* the client sessions; the handlers take no session identifier, so which
\* session a request belongs to is known to its client only
Sessions == {"s1", "s2"}

\* the documents a client has uploaded: of two sessions, the first has a
\* document above the threshold, the second one below it and one whose
\* extraction failed; a client that is alone may have any document
DocsOf(c) ==
    IF c = "s1"
    THEN {[year |-> IntV(2021), gross_income |-> IntV(15000),
           income_tax_paid |-> IntV(16), fallback |-> Absent]}
    ELSE IF c = "s2"
    THEN {[year |-> IntV(2021), gross_income |-> IntV(5000),
           income_tax_paid |-> IntV(16), fallback |-> Absent],
          FallbackRecord}
    ELSE Records

\* the module is loaded: one advisor, one memory
InitModule ==
    /\ owners = {}
    /\ advised = FALSE
    /\ conversation_history = <<>>
    /\ extracted_data = EmptyDict
    /\ user_data = EmptyUserData
    /\ filed_years = {}
    /\ memory_data = EmptyDict
    /\ ret = [op |-> "init", kind |-> "none", exc |-> "none", content |-> "",
              oracle |-> NotCalled, hist_before |-> <<>>, fresh |-> TRUE,
              done |-> FALSE]

\* a float: num / den
Float(num, den) == [num |-> num, den |-> den]

\* the defaults of the result dict of parse_german_tax_document
DefaultResult ==
    [year |-> PyNone, employer |-> <<"Unknown">>,
     bruttolohn |-> Float(0, 1), error |-> "none"]

\* what parse_with_llm returns: a JSON object with the result fields and
\* perhaps a "success" key of its own, or some other JSON value
ParsedData(json, result, success) ==
    [json |-> json, result |-> result, success |-> success]

\* the field extractor has been handed nothing
InitParser ==
    /\ document = <<>>
    /\ parsed = [done |-> FALSE, result |-> DefaultResult]

\* no call into the extraction pipeline has been made
NoReply ==
    [op |-> "none", raised |-> FALSE, enhance |-> "not_called",
     llm |-> "not_called", text |-> <<>>,
     value |-> ParsedData("object", DefaultResult, "absent"),
     success |-> FALSE, page_count |-> 0, character_count |-> 0,
     error |-> "none"]

\* no file has been uploaded
InitService ==
    /\ api_key = FALSE
    /\ upload = [kind |-> "empty_bytes", page_count |-> 0, text |-> <<>>]
    /\ reply = NoReply

\* the counters of extract_pdfs as the handler sets them up
ZeroCounters ==
    [successful_extractions |-> 0, failed_extractions |-> 0,
     total_pages |-> 0, total_characters |-> 0, total_size |-> 0]

\* no request is being handled
InitEndpoint ==
    /\ files = <<>>
    /\ cursor = [i |-> 1, phase |-> "idle"]
    /\ workers = <<>>
    /\ results = <<>>
    /\ counters = ZeroCounters
    /\ response = "none"

InitExtractor == InitParser /\ InitService /\ InitEndpoint

\* no text is being normalized
InitText ==
    /\ text_in = <<>>
    /\ text_once = <<>>
    /\ text_twice = <<>>
    /\ clean_pc = "input"

\* one client is connected
InitAdvisor == InitModule /\ clients = {"client"}

Init == InitAdvisor /\ InitText /\ InitExtractor

set_extracted_data ==
    \E data \in Records :
        /\ extracted_data' = data
        /\ user_data' = UserDataAfter(user_data, data)
        /\ filed_years' = FiledYearsAfter(filed_years, data)
        /\ ret' = Ret("set_extracted_data", "none", "none", "", NotCalled)
        /\ UNCHANGED <<conversation_history, memory_data>>
        /\ UNCHANGED <<clients, owners, advised, text_vars, extractor_vars>>

add_user_message ==
    \E m \in UserMessages :
        /\ Len(conversation_history) < MaxHistory
        /\ conversation_history' = AddUserMessage(conversation_history, m)
        /\ ret' = Ret("add_user_message", "none", "none", "", NotCalled)
        /\ UNCHANGED <<extracted_data, user_data, filed_years, memory_data>>
        /\ UNCHANGED <<clients, owners, advised, text_vars, extractor_vars>>

add_agent_message ==
    \E m \in Replies :
        /\ Len(conversation_history) < MaxHistory
        /\ conversation_history' = AddAgentMessage(conversation_history, m)
        /\ ret' = Ret("add_agent_message", "none", "none", "", NotCalled)
        /\ UNCHANGED <<extracted_data, user_data, filed_years, memory_data>>
        /\ UNCHANGED <<clients, owners, advised, text_vars, extractor_vars>>

next_advisor_message ==
    \E o \in OracleOutcomes :
        LET res == NextAdvisorResult(conversation_history, user_data,
                                     extracted_data, filed_years, o)
        IN  /\ Len(res.hist) <= MaxHistory
            /\ conversation_history' = res.hist
            /\ ret' = Ret("next_advisor_message", res.kind, res.exc,
                          res.content, res.oracle)
            /\ UNCHANGED <<extracted_data, user_data, filed_years,
                           memory_data>>
            /\ UNCHANGED <<clients, owners, advised, text_vars, extractor_vars>>

----------------------------------------------------------------------------
(* The request handlers of tax-agent-backend/main.py, on the module's one  *)
(* advisor and one memory                                                  *)

done_keywords ==
    {"all done", "summary", "refund", "no further questions",
     "file for another year", "eligible for a full refund"}

\* the keywords kw with kw.lower() in next_message.lower(), by message text:
\* the summary and a reply quoting it hold "summary", the early-exit
\* message holds "refund" and "eligible for a full refund"
KeywordsIn(c) ==
    CASE c \in {"summary", "r_quotes_summary"} -> {"summary"}
      [] c = "refund" -> {"refund", "eligible for a full refund"}
      [] OTHER -> {}

\* variant: only the keyword "refund" counts
DoneKeywordIn_refund(c) == "refund" \in KeywordsIn(c)

\* any(kw.lower() in next_message.lower() for kw in done_keywords)
DoneKeywordIn(c) == \E kw \in done_keywords : kw \in KeywordsIn(c)

\* the values of the answers dict of POST /fill-form, in iteration order
AnswerLists ==
    {<<>>} \cup {<<a>> : a \in UserMessages}
        \cup {<<a, b>> : a \in UserMessages, b \in UserMessages}

RECURSIVE AddUserMessages(_, _)
AddUserMessages(h, answers) ==
    IF answers = <<>> THEN h
    ELSE AddUserMessages(AddUserMessage(h, Head(answers)), Tail(answers))

\* the response carries the refund statement or a reply of the oracle
Advises(res) == res.kind \in {"refund", "reply"}

\* POST /extract with a file that exists: processor.extract, memory.store_data,
\* advisor.set_extracted_data, then the history reset
extract_fields ==
    \E c \in clients, data \in Records :
        /\ data \in DocsOf(c)
        /\ memory_data' = StoreData(memory_data, data)
        /\ extracted_data' = data
        /\ user_data' = UserDataAfter(user_data, data)
        /\ filed_years' = FiledYearsAfter(filed_years, data)
        /\ conversation_history' = <<>>
        /\ ret' = Ret("extract_fields", "none", "none", "", NotCalled)
        /\ owners' = owners \cup {c}
        /\ UNCHANGED <<clients, advised>>
        /\ UNCHANGED <<text_vars, extractor_vars>>

\* POST /extract with a file that does not exist: HTTPException, no change
extract_fields_not_found ==
    /\ ret' = Ret("extract_fields", "raise", "HTTPException", "",
                  NotCalled)
    /\ UNCHANGED <<conversation_history, extracted_data, user_data,
                   filed_years, memory_data>>
    /\ UNCHANGED <<clients, owners, advised>>
    /\ UNCHANGED <<text_vars, extractor_vars>>

\* POST /questions
generate_questions ==
    \E o \in OracleOutcomes :
        LET res == NextAdvisorResult(conversation_history, user_data,
                                     extracted_data, filed_years, o)
        IN  /\ Len(res.hist) <= MaxHistory
            /\ conversation_history' = res.hist
            /\ ret' = Ret("generate_questions", res.kind, res.exc,
                          res.content, res.oracle)
            /\ UNCHANGED <<extracted_data, user_data, filed_years,
                           memory_data>>
            /\ \E c \in clients : owners' = owners \cup {c}
            /\ advised' = (advised \/ Advises(res))
            /\ UNCHANGED clients
            /\ UNCHANGED <<text_vars, extractor_vars>>

\* POST /fill-form: the answers are added as user messages, then the advisor
\* speaks; an exception of the advisor leaves the added messages in place
fill_form ==
    \E answers \in AnswerLists, o \in OracleOutcomes :
        LET h == AddUserMessages(conversation_history, answers)
            res == NextAdvisorResult(h, user_data, extracted_data,
                                     filed_years, o)
        IN  /\ Len(res.hist) <= MaxHistory
            /\ conversation_history' = res.hist
            /\ ret' = [Ret("fill_form", res.kind, res.exc, res.content,
                           res.oracle)
                          EXCEPT !.done = res.kind # "raise"
                                          /\ DoneKeywordIn(res.content)]
            /\ UNCHANGED <<extracted_data, user_data, filed_years,
                           memory_data>>
            /\ \E c \in clients : owners' = owners \cup {c}
            /\ advised' = (advised \/ Advises(res))
            /\ UNCHANGED clients
            /\ UNCHANGED <<text_vars, extractor_vars>>

NextApp ==
    \/ extract_fields
    \/ extract_fields_not_found
    \/ generate_questions
    \/ fill_form

SpecApp == Init /\ [][NextApp]_vars

\* every client session is connected
InitSessions ==
    /\ InitModule
    /\ clients = Sessions
    /\ InitText
    /\ InitExtractor

SpecSessions == InitSessions /\ [][NextApp]_vars

----------------------------------------------------------------------------
Next ==
    \/ set_extracted_data
    \/ add_user_message
    \/ add_agent_message
    \/ next_advisor_message

Spec == Init /\ [][Next]_vars

----------------------------------------------------------------------------
(* The text normalizer clean_text of pdf-extractor-service/main.py.  A text *)
(* is a sequence of one-character strings.                                  *)

\* the characters the raw texts are drawn from: digits, a blank, a character
\* outside the whitelist and a letter
InputChars == {"0", "2", " ", "#", "a"}

Inputs == UNION {[1..n -> InputChars] : n \in 0..MaxLen}

Digits == {"0", "1", "2", "3", "4", "5", "6", "7", "8", "9"}

DigitVal ==
    ("0" :> 0) @@ ("1" :> 1) @@ ("2" :> 2) @@ ("3" :> 3) @@ ("4" :> 4)
        @@ ("5" :> 5) @@ ("6" :> 6) @@ ("7" :> 7) @@ ("8" :> 8) @@ ("9" :> 9)

\* \d
IsDigit(c) == c \in Digits

\* \s
IsSpace(c) == c \in {" ", "\n", "\r", "\t"}

\* whole words of letters, with their lengths in characters
WordLength ==
    ("Veranlagungszeitraum" :> 20) @@ ("Arbeitgeber" :> 11) @@ ("Acme" :> 4)
        @@ ("AG" :> 2) @@ ("Bruttoarbeitslohn" :> 17) @@ ("Unknown" :> 7)
        @@ ("Name" :> 4) @@ ("des" :> 3) @@ ("Arbeitgebers" :> 12)
        @@ ("Betroffenes" :> 11) @@ ("Jahr" :> 4) @@ ("Steuerklasse" :> 12)
        @@ ("Identifikationsnummer" :> 21) @@ ("einbehaltene" :> 12)
        @@ ("einbehaltener" :> 13)

LetterWords == DOMAIN WordLength

\* \w, over the characters of the model
IsWord(c) == IsDigit(c) \/ c \in {"a", "_"} \/ c \in LetterWords

\* the whitelist of [^\w\s\.\,\-\u20ac\(\)\:\;]
Kept(c) ==
    IsWord(c) \/ IsSpace(c) \/ c \in {".", ",", "-", "(", ")", ":", ";"}

\* re.sub(r'\s+', ' ', text), from index i on
RECURSIVE CollapseFrom(_, _)
CollapseFrom(s, i) ==
    IF i > Len(s) THEN <<>>
    ELSE IF IsSpace(s[i])
         THEN IF i > 1 /\ IsSpace(s[i - 1])
              THEN CollapseFrom(s, i + 1)
              ELSE <<" ">> \o CollapseFrom(s, i + 1)
         ELSE <<s[i]>> \o CollapseFrom(s, i + 1)

CollapseWhitespace(s) == CollapseFrom(s, 1)

\* re.sub(r'[^\w\s\.\,\-\u20ac\(\)\:\;]', '', text)
RemoveSpecial(s) == SelectSeq(s, Kept)

\* str.strip()
RECURSIVE Strip(_)
Strip(s) ==
    IF s = <<>> THEN <<>>
    ELSE IF IsSpace(s[1]) THEN Strip(Tail(s))
    ELSE IF IsSpace(s[Len(s)]) THEN Strip(SubSeq(s, 1, Len(s) - 1))
    ELSE s

\* the line pass: after the whitespace collapse the text holds no line
\* terminator, so it is one line, stripped, or nothing when that is empty
StripLines(s) == Strip(s)

\* int(number)
RECURSIVE ToInt(_)
ToInt(d) ==
    IF d = <<>> THEN 0
    ELSE 10 * ToInt(SubSeq(d, 1, Len(d) - 1)) + DigitVal[d[Len(d)]]

\* number[:-2] + '.' + number[-2:]
InsertPoint(number) ==
    SubSeq(number, 1, Len(number) - 2) \o <<".">>
        \o SubSeq(number, Len(number) - 1, Len(number))

\* variant: a 4-digit token is repaired from 2000 on
fix_number_format_ge(number) ==
    IF Len(number) >= 4 /\ Len(number) <= 6
    THEN LET num_val == ToInt(number)
         IN  IF 1000 <= num_val /\ num_val <= 999999
             THEN IF Len(number) >= 5 THEN InsertPoint(number)
                  ELSE IF num_val >= 2000 THEN InsertPoint(number)
                  ELSE number
             ELSE number
    ELSE number

\* clean_text.fix_number_format
fix_number_format(number) ==
    IF Len(number) >= 4 /\ Len(number) <= 6
    THEN LET num_val == ToInt(number)
         IN  IF 1000 <= num_val /\ num_val <= 999999
             THEN IF Len(number) >= 5 THEN InsertPoint(number)
                  ELSE IF num_val > 2000 THEN InsertPoint(number)
                  ELSE number
             ELSE number
    ELSE number

\* clean_text.fix_large_number_format
fix_large_number_format(number) ==
    IF Len(number) >= 6
    THEN LET num_val == ToInt(number)
         IN  IF 100000 <= num_val /\ num_val <= 999999
             THEN InsertPoint(number)
             ELSE number
    ELSE number

\* the end of the run of digits that starts at i
RECURSIVE RunEnd(_, _)
RunEnd(s, i) ==
    IF i < Len(s) /\ IsDigit(s[i + 1]) THEN RunEnd(s, i + 1) ELSE i

\* re.sub(r'\b\d{4,6}\b', fix_number_format, text) and, when large,
\* re.sub(r'\b\d{6,7}\b', fix_large_number_format, text), from index i on:
\* a match is a whole run of digits with no word character on either side
RECURSIVE SubNumbers(_, _, _)
SubNumbers(s, i, large) ==
    IF i > Len(s) THEN <<>>
    ELSE IF ~IsDigit(s[i]) THEN <<s[i]>> \o SubNumbers(s, i + 1, large)
    ELSE LET j == RunEnd(s, i)
             number == SubSeq(s, i, j)
             n == j - i + 1
             standalone == /\ (i = 1 \/ ~IsWord(s[i - 1]))
                           /\ (j = Len(s) \/ ~IsWord(s[j + 1]))
             matched == /\ standalone
                        /\ IF large THEN n \in 6..7 ELSE n \in 4..6
             out == IF ~matched THEN number
                    ELSE IF large THEN fix_large_number_format(number)
                    ELSE fix_number_format(number)
         IN  out \o SubNumbers(s, j + 1, large)

\* clean_text
clean_text(text) ==
    IF text = <<>> THEN <<>>
    ELSE LET collapsed == CollapseWhitespace(text)
             stripped == RemoveSpecial(collapsed)
             lines == StripLines(stripped)
             fixed == SubNumbers(lines, 1, FALSE)
             fixed_large == SubNumbers(fixed, 1, TRUE)
         IN  Strip(fixed_large)

\* a raw text arrives
InitClean ==
    /\ InitAdvisor
    /\ InitExtractor
    /\ text_in \in Inputs
    /\ text_once = <<>>
    /\ text_twice = <<>>
    /\ clean_pc = "input"

\* the raw text is normalized
Normalize ==
    /\ clean_pc = "input"
    /\ text_once' = clean_text(text_in)
    /\ clean_pc' = "cleaned"
    /\ UNCHANGED <<text_in, text_twice>>
    /\ UNCHANGED <<advisor_vars, extractor_vars>>

\* the normalized text is normalized again
Renormalize ==
    /\ clean_pc = "cleaned"
    /\ text_twice' = clean_text(text_once)
    /\ clean_pc' = "recleaned"
    /\ UNCHANGED <<text_in, text_once>>
    /\ UNCHANGED <<advisor_vars, extractor_vars>>

NextClean ==
    \/ Normalize
    \/ Renormalize

SpecClean == InitClean /\ [][NextClean]_vars

----------------------------------------------------------------------------
(* The field extractor parse_german_tax_document of                         *)
(* pdf-extractor-service/main.py.  A document text is a sequence of tokens  *)
(* separated by single blanks; a token is a sequence of symbols, a symbol   *)
(* being one character or one whole word of letters.                        *)

MaxTokens == 5

\* the tokens the document texts are drawn from
Vocabulary ==
    {<<"Veranlagungszeitraum", ":">>, <<"2", "0", ".", "2", "1">>,
     <<"1", "9", ".", "9", "9">>, <<"Arbeitgeber">>, <<"Acme">>, <<"AG">>,
     <<"Bruttoarbeitslohn">>, <<"2", ".", "0", "3", "3", ",", "0", "0">>,
     <<"1", "9", "9", "9">>}

Documents == UNION {[1..n -> Vocabulary] : n \in 0..MaxTokens}

\* the characters of a token sequence, the tokens joined by blanks
RECURSIVE Flatten(_)
Flatten(toks) ==
    IF toks = <<>> THEN <<>>
    ELSE IF Len(toks) = 1 THEN toks[1]
    ELSE toks[1] \o <<" ">> \o Flatten(Tail(toks))

\* a token that [A-Za-z\s]+ can run over: one word of letters
LetterToken(tok) == Len(tok) = 1 /\ tok[1] \in LetterWords

\* the longest prefix of tok made of symbols in the set cls
RECURSIVE PrefixIn(_, _)
PrefixIn(tok, cls) ==
    IF tok = <<>> \/ tok[1] \notin cls THEN <<>>
    ELSE <<tok[1]>> \o PrefixIn(Tail(tok), cls)

RECURSIVE Pow10(_)
Pow10(n) == IF n = 0 THEN 1 ELSE 10 * Pow10(n - 1)

\* s.replace('.', '').replace(',', '.')
GermanToDecimal(s) ==
    LET no_points == SelectSeq(s, LAMBDA c : c # ".")
    IN  [i \in 1..Len(no_points) |->
            IF no_points[i] = "," THEN "." ELSE no_points[i]]

\* float(s) on digits and points: fails without a digit or with two points
FloatOf(s) ==
    LET points == {i \in 1..Len(s) : s[i] = "."}
        digits == SelectSeq(s, IsDigit)
    IN  IF digits = <<>> \/ Cardinality(points) > 1
        THEN [ok |-> FALSE, value |-> Float(0, 1)]
        ELSE LET after == IF points = {} THEN 0
                          ELSE Len(s) - (CHOOSE i \in points : TRUE)
             IN  [ok |-> TRUE, value |-> Float(ToInt(digits), Pow10(after))]

\* re.search(r'Veranlagungszeitraum:\s*(\d{2})\.(\d{2})', text): the index
\* of the first label token that such a token follows, or 0
YearMatch(toks) ==
    LET hits == {i \in 1..(Len(toks) - 1) :
                    /\ toks[i] = <<"Veranlagungszeitraum", ":">>
                    /\ Len(toks[i + 1]) >= 5
                    /\ IsDigit(toks[i + 1][1]) /\ IsDigit(toks[i + 1][2])
                    /\ toks[i + 1][3] = "."
                    /\ IsDigit(toks[i + 1][4]) /\ IsDigit(toks[i + 1][5])}
    IN  IF hits = {} THEN 0 ELSE CHOOSE i \in hits : \A j \in hits : i <= j

\* variant: the year is rebuilt from the first group
LabelledYear_first(toks, i) == 2000 + ToInt(SubSeq(toks[i + 1], 1, 2))

\* int(f"20{year_match.group(2)}")
LabelledYear(toks, i) == 2000 + ToInt(SubSeq(toks[i + 1], 4, 5))

\* the words before the captured name in employer pattern p
EmployerPrefix(p) ==
    IF p = 1 THEN <<"Arbeitgeber", "Name", "des", "Arbeitgebers">>
    ELSE IF p = 3 THEN <<"Name", "des", "Arbeitgebers">>
    ELSE <<"Arbeitgeber">>

\* the lookahead of employer pattern p holds before token k of toks
EmployerStop(toks, k, p) ==
    \/ k > Len(toks)
    \/ /\ p \in {1, 2, 3}
       /\ k + 1 <= Len(toks)
       /\ toks[k] = <<"Betroffenes">> /\ toks[k + 1][1] = "Jahr"
    \/ p = 4 /\ toks[k][1] = "Steuerklasse"
    \/ p = 5 /\ toks[k][1] = "Identifikationsnummer"
    \/ p = 6 /\ toks[k][1] = "Bruttoarbeitslohn"
    \/ p = 7 /\ toks[k][1] \in {"einbehaltene", "einbehaltener"}
    \/ p = 8 /\ Len(PrefixIn(toks[k], Digits)) >= 4
    \/ p = 9 /\ toks[k][1] \in LetterWords

\* re.search(employer_patterns[p], text, re.IGNORECASE): the captured
\* tokens <<first, last>> of the leftmost match, or <<0, 0>>
EmployerMatch(toks, p) ==
    LET pre == EmployerPrefix(p)
        starts == {g \in (Len(pre) + 1)..Len(toks) :
                      /\ \A j \in 1..Len(pre) :
                            toks[g - Len(pre) + j - 1] = <<pre[j]>>
                      /\ \E k \in g..Len(toks) :
                            /\ \A j \in g..k : LetterToken(toks[j])
                            /\ EmployerStop(toks, k + 1, p)}
    IN  IF starts = {} THEN <<0, 0>>
        ELSE LET g == CHOOSE x \in starts : \A y \in starts : x <= y
                 ends == {k \in g..Len(toks) :
                             /\ \A j \in g..k : LetterToken(toks[j])
                             /\ EmployerStop(toks, k + 1, p)}
             IN  <<g, CHOOSE k \in ends : \A m \in ends : k <= m>>

\* len(s) in characters: a word symbol counts its letters
RECURSIVE NameLength(_)
NameLength(name) ==
    IF name = <<>> THEN 0
    ELSE IF name[1] \in LetterWords
         THEN WordLength[name[1]] + NameLength(Tail(name))
    ELSE 1 + NameLength(Tail(name))

\* the employer loop from pattern p on: the first pattern whose name is
\* longer than 2 characters wins
RECURSIVE EmployerFrom(_, _)
EmployerFrom(toks, p) ==
    IF p > 10 THEN <<"Unknown">>
    ELSE LET m == EmployerMatch(toks, p)
             name == IF m[1] = 0 THEN <<>>
                     ELSE Flatten(SubSeq(toks, m[1], m[2]))
         IN  IF m[1] # 0 /\ NameLength(name) > 2 THEN name
             ELSE EmployerFrom(toks, p + 1)

\* re.search(r'Bruttoarbeitslohn\s+([\d\.,]+)', text): the captured group
\* of the leftmost match, or the empty sequence
BruttolohnMatch(toks) ==
    LET cls == Digits \cup {".", ","}
        hits == {i \in 1..(Len(toks) - 1) :
                    /\ toks[i] = <<"Bruttoarbeitslohn">>
                    /\ PrefixIn(toks[i + 1], cls) # <<>>}
    IN  IF hits = {} THEN <<>>
        ELSE PrefixIn(toks[(CHOOSE i \in hits : \A j \in hits : i <= j) + 1],
                      cls)

\* re.search(r'(\d{4})', text): the first four digits in a row, or <<>>
RECURSIVE FirstFourDigits(_)
FirstFourDigits(s) ==
    IF Len(s) < 4 THEN <<>>
    ELSE IF \A i \in 1..4 : IsDigit(s[i]) THEN SubSeq(s, 1, 4)
    ELSE FirstFourDigits(Tail(s))

\* parse_german_tax_document(text): the name filename is not defined in the
\* function, so reaching the filename rule raises NameError, which the
\* outer except turns into the result as filled so far
parse_german_tax_document(toks) ==
    LET ym == YearMatch(toks)
        r1 == IF ym # 0
              THEN [DefaultResult EXCEPT !.year = IntV(LabelledYear(toks, ym))]
              ELSE DefaultResult
        r2 == [r1 EXCEPT !.employer = EmployerFrom(toks, 1)]
    IN  IF r2.employer = <<"Unknown">>
        THEN [r2 EXCEPT !.error = "NameError"]
        ELSE LET group == BruttolohnMatch(toks)
                 f == FloatOf(GermanToDecimal(group))
                 r3 == IF group # <<>> /\ f.ok
                       THEN [r2 EXCEPT !.bruttolohn = f.value]
                       ELSE r2
                 four == FirstFourDigits(Flatten(toks))
             IN  IF ~Truthy(r3.year) /\ four # <<>>
                 THEN [r3 EXCEPT !.year = IntV(ToInt(four))]
                 ELSE r3

\* a document text arrives
InitParse ==
    /\ InitAdvisor
    /\ InitText
    /\ InitService
    /\ InitEndpoint
    /\ document \in Documents
    /\ parsed = [done |-> FALSE, result |-> DefaultResult]

\* the field extractor runs on the document text
Parse ==
    /\ ~parsed.done
    /\ parsed' = [done |-> TRUE, result |-> parse_german_tax_document(document)]
    /\ UNCHANGED document
    /\ UNCHANGED <<advisor_vars, text_vars, service_vars, endpoint_vars>>

NextParse == Parse

SpecParse == InitParse /\ [][NextParse]_vars

\* the blank-separated words of a text
RECURSIVE Words(_)
Words(s) ==
    IF \A i \in 1..Len(s) : s[i] # " " THEN <<s>>
    ELSE LET k == CHOOSE i \in 1..Len(s) :
                      s[i] = " " /\ \A j \in 1..(i - 1) : s[j] # " "
         IN  <<SubSeq(s, 1, k - 1)>> \o Words(SubSeq(s, k + 1, Len(s)))

\* the text as the numeric repair finds it

----------------------------------------------------------------------------
(* The extraction pipeline of pdf-extractor-service/main.py:                *)
(* enhance_text_with_llm, parse_with_llm and extract_text_from_file.        *)

MaxFileTokens == 2
MaxPages == 2

\* the texts a file can hold; the empty text is an image-only document
FileTexts == UNION {[1..n -> Vocabulary] : n \in 0..MaxFileTokens}

\* zero bytes, bytes that fitz cannot open, or a PDF with its pages and text
Uploads ==
    {[kind |-> k, page_count |-> 0, text |-> <<>>] :
        k \in {"empty_bytes", "corrupt", "pdf"}}
    \cup {[kind |-> "pdf", page_count |-> n, text |-> t] :
            n \in 1..MaxPages, t \in FileTexts}

\* what the language model can answer to the enhancement prompt
EnhancedTexts == {<<>>, <<<<"Arbeitgeber">>, <<"Acme">>>>}

\* the enhancement call fails (timeout, service error) or returns a text
EnhanceOutcomes ==
    {[t |-> "error", text |-> <<>>]}
    \cup {[t |-> "text", text |-> x] : x \in EnhancedTexts}

\* the parsing call fails, or returns text that is not JSON, a JSON
\* object, a JSON object with a "success" key, or JSON that is no object
ParseOutcomes ==
    {"error", "invalid_json", "object", "object_success_false", "non_object"}

NoKey == [t |-> "no_key", text |-> <<>>]

\* the oracle outcomes a call can meet under the credential key
EnhanceOutcomesUnder(key) == IF key THEN EnhanceOutcomes ELSE {NoKey}
ParseOutcomesUnder(key) == IF key THEN ParseOutcomes ELSE {"no_key"}

\* the object of the prompt's example format
LlmResult ==
    [year |-> IntV(2024), employer |-> <<"Acme">>,
     bruttolohn |-> Float(50000, 1), error |-> "none"]

\* the tokens of a normalized text
Tokens(s) == IF s = <<>> THEN <<>> ELSE Words(s)

\* len(text) in characters
CharCount(toks) == NameLength(Flatten(toks))

\* enhance_text_with_llm(text, filename) under oracle outcome o
enhance_text_with_llm(text, key, o) ==
    IF ~key THEN text
    ELSE IF o.t = "error" THEN text
    ELSE o.text

\* the deterministic result as parse_with_llm returns it
Deterministic(text) ==
    ParsedData("object", parse_german_tax_document(text), "absent")

\* what json.loads makes of the oracle's answer o
LlmData(o) ==
    IF o = "non_object" THEN ParsedData("other", DefaultResult, "absent")
    ELSE ParsedData("object", LlmResult,
                    IF o = "object_success_false" THEN "false" ELSE "absent")

\* variant: text that is not JSON yields the defaults
parse_with_llm_defaults(text, key, o) ==
    IF ~key \/ o = "error" THEN Deterministic(text)
    ELSE IF o = "invalid_json"
    THEN ParsedData("object", DefaultResult, "absent")
    ELSE LlmData(o)

\* parse_with_llm(text, filename) under oracle outcome o: the deterministic
\* result without a credential, on an oracle error and on text that is not
\* JSON
parse_with_llm(text, key, o) ==
    IF ~key \/ o \in {"error", "invalid_json"} THEN Deterministic(text)
    ELSE LlmData(o)

\* the failure dict of extract_text_from_file
Failure(op_reply, pages, error) ==
    [op_reply EXCEPT !.success = FALSE, !.text = <<>>, !.page_count = pages,
                     !.character_count = 0, !.error = error]

\* the return statement: **parsed_data raises TypeError unless parsed_data
\* is a mapping, and a "success" key in it replaces the literal True
ReturnDict(called, pages, enhanced_text, parsed_data) ==
    IF parsed_data.json # "object" THEN Failure(called, 0, "TypeError")
    ELSE [called EXCEPT !.success = (parsed_data.success # "false"),
                        !.text = enhanced_text,
                        !.page_count = pages,
                        !.character_count = CharCount(enhanced_text),
                        !.value = parsed_data]

\* the steps of extract_text_from_file after the enhancement
AfterEnhance(called, pages, key, ol, enhanced_text) ==
    ReturnDict(called, pages, enhanced_text,
               parse_with_llm(enhanced_text, key, ol))

\* extract_text_from_file(file_content, filename) under the oracle outcomes
\* oe of the enhancement call and ol of the parsing call
extract_text_from_file(file, key, oe, ol) ==
    LET base == [NoReply EXCEPT !.op = "extract_text_from_file"]
    IN  IF file.kind = "empty_bytes" THEN Failure(base, 0, "empty_file")
        ELSE IF file.kind = "corrupt" THEN Failure(base, 0, "not_opened")
        ELSE IF file.page_count = 0 THEN Failure(base, 0, "no_pages")
        ELSE IF file.text = <<>>
             THEN Failure(base, file.page_count, "no_text")
        ELSE AfterEnhance(
                 [base EXCEPT !.enhance = oe.t, !.llm = ol],
                 file.page_count, key, ol,
                 enhance_text_with_llm(
                     Tokens(clean_text(Flatten(file.text))), key, oe))

\* a file arrives, with or without the credential in the environment
InitService_upload ==
    /\ InitAdvisor
    /\ InitText
    /\ InitParser
    /\ InitEndpoint
    /\ api_key \in BOOLEAN
    /\ upload \in Uploads
    /\ reply = NoReply

\* enhance_text_with_llm is called on the file's text
Enhance ==
    /\ reply.op = "none"
    /\ \E o \in EnhanceOutcomesUnder(api_key) :
          reply' = [NoReply EXCEPT
                       !.op = "enhance_text_with_llm", !.enhance = o.t,
                       !.text = enhance_text_with_llm(upload.text, api_key, o)]
    /\ UNCHANGED <<api_key, upload>>
    /\ UNCHANGED <<advisor_vars, text_vars, parse_vars, endpoint_vars>>

\* parse_with_llm is called on the file's text
ParseWithLlm ==
    /\ reply.op = "none"
    /\ \E o \in ParseOutcomesUnder(api_key) :
          reply' = [NoReply EXCEPT
                       !.op = "parse_with_llm", !.llm = o,
                       !.value = parse_with_llm(upload.text, api_key, o)]
    /\ UNCHANGED <<api_key, upload>>
    /\ UNCHANGED <<advisor_vars, text_vars, parse_vars, endpoint_vars>>

\* extract_text_from_file is called on the file
ExtractTextFromFile ==
    /\ reply.op = "none"
    /\ \E oe \in EnhanceOutcomesUnder(api_key),
          ol \in ParseOutcomesUnder(api_key) :
          reply' = extract_text_from_file(upload, api_key, oe, ol)
    /\ UNCHANGED <<api_key, upload>>
    /\ UNCHANGED <<advisor_vars, text_vars, parse_vars, endpoint_vars>>

NextService ==
    \/ Enhance
    \/ ParseWithLlm
    \/ ExtractTextFromFile

SpecService == InitService_upload /\ [][NextService]_vars

----------------------------------------------------------------------------
(* The endpoint extract_pdfs of pdf-extractor-service/main.py.  The handler *)
(* walks the uploaded files; each extraction runs in a thread of its own    *)
(* that the handler awaits for at most 30 seconds.  Sizes are in megabytes. *)

MaxFiles == 3

\* len(files) > 10, file_size > 10 MB, total_size > 50 MB
MaxFilesPerRequest == 10
MaxFileMB == 10
MaxTotalMB == 50

\* a readable one-page PDF and a file that fitz cannot open
GoodUpload ==
    [kind |-> "pdf", page_count |-> 1,
     text |-> <<<<"Arbeitgeber">>, <<"Acme">>>>]
CorruptUpload == [kind |-> "corrupt", page_count |-> 0, text |-> <<>>]

\* the uploaded files: one without the .pdf suffix, one of 30 MB, one that
\* cannot be opened and one that can
UploadFiles ==
    {[pdf_name |-> FALSE, size_mb |-> 1, upload |-> GoodUpload],
     [pdf_name |-> TRUE, size_mb |-> 30, upload |-> GoodUpload],
     [pdf_name |-> TRUE, size_mb |-> 1, upload |-> CorruptUpload],
     [pdf_name |-> TRUE, size_mb |-> 1, upload |-> GoodUpload]}

Requests == UNION {[1..n -> UploadFiles] : n \in 0..MaxFiles}

\* the thread of a file that the handler has not reached
NoWorker == [state |-> "none", starts |-> 0, result |-> NoReply]

\* the entry the handler appends for a file it rejects
ErrorEntry(i, error) ==
    [file |-> i, text |-> <<>>, page_count |-> 0, character_count |-> 0,
     status |-> "error", error |-> error]

\* variant: the dict built on a timeout reports success
TimeoutResult_success ==
    [NoReply EXCEPT !.op = "extract_text_from_file", !.success = TRUE,
                    !.error = "timeout"]

\* the dict built in the except asyncio.TimeoutError branch
TimeoutResult ==
    Failure([NoReply EXCEPT !.op = "extract_text_from_file"], 0, "timeout")

\* the conversion to the unified response format
UnifiedResult(i, result) ==
    IF result.success
    THEN [file |-> i, text |-> result.text, page_count |-> result.page_count,
          character_count |-> result.character_count, status |-> "success",
          error |-> "none"]
    ELSE ErrorEntry(i, result.error)

\* the counters after the result of one extraction
Tally(c, result) ==
    IF result.success
    THEN [c EXCEPT !.successful_extractions = @ + 1,
                   !.total_pages = @ + result.page_count,
                   !.total_characters = @ + result.character_count]
    ELSE [c EXCEPT !.failed_extractions = @ + 1]

\* a request arrives
InitPdf ==
    /\ InitAdvisor
    /\ InitText
    /\ InitParser
    /\ InitService
    /\ files \in Requests
    /\ cursor = [i |-> 1, phase |-> "loop"]
    /\ workers = [i \in 1..Len(files) |-> NoWorker]
    /\ results = <<>>
    /\ counters = ZeroCounters
    /\ response = "none"

\* no files or more than ten files: HTTP 400
RejectRequest ==
    /\ cursor.phase = "loop"
    /\ response = "none"
    /\ files = <<>> \/ Len(files) > MaxFilesPerRequest
    /\ response' = "400"
    /\ cursor' = [cursor EXCEPT !.phase = "responded"]
    /\ UNCHANGED <<files, workers, results, counters>>
    /\ UNCHANGED <<advisor_vars, text_vars, parse_vars, service_vars>>

\* one turn of the loop up to the await: the file is rejected, or its
\* extraction is started in a thread
BeginFile ==
    /\ cursor.phase = "loop"
    /\ files # <<>> /\ Len(files) <= MaxFilesPerRequest
    /\ cursor.i <= Len(files)
    /\ LET i == cursor.i
           file == files[i]
           sized == [counters EXCEPT !.total_size = @ + file.size_mb]
           failed(c) == [c EXCEPT !.failed_extractions = @ + 1]
       IN  IF ~file.pdf_name
           THEN /\ results' = Append(results, ErrorEntry(i, "not_pdf"))
                /\ counters' = failed(counters)
                /\ cursor' = [cursor EXCEPT !.i = i + 1]
                /\ UNCHANGED workers
           ELSE IF file.size_mb > MaxFileMB
           THEN /\ results' = Append(results, ErrorEntry(i, "file_too_large"))
                /\ counters' = failed(sized)
                /\ cursor' = [cursor EXCEPT !.i = i + 1]
                /\ UNCHANGED workers
           ELSE IF sized.total_size > MaxTotalMB
           THEN /\ results' = Append(results, ErrorEntry(i, "payload_too_large"))
                /\ counters' = failed(sized)
                /\ cursor' = [cursor EXCEPT !.i = i + 1]
                /\ UNCHANGED workers
           ELSE /\ workers' = [workers EXCEPT ![i].state = "running",
                                               ![i].starts = @ + 1]
                /\ counters' = sized
                /\ cursor' = [cursor EXCEPT !.phase = "waiting"]
                /\ UNCHANGED results
    /\ UNCHANGED <<files, response>>
    /\ UNCHANGED <<advisor_vars, text_vars, parse_vars, service_vars>>

\* the thread of file i returns from extract_text_from_file in time
WorkerCompletes ==
    /\ \E i \in 1..Len(files) :
          /\ workers[i].state = "running"
          /\ \E oe \in EnhanceOutcomesUnder(api_key),
                ol \in ParseOutcomesUnder(api_key) :
                workers' = [workers EXCEPT
                    ![i].state = "done",
                    ![i].result = extract_text_from_file(files[i].upload,
                                                         api_key, oe, ol)]
    /\ UNCHANGED <<files, cursor, results, counters, response>>
    /\ UNCHANGED <<advisor_vars, text_vars, parse_vars, service_vars>>

\* asyncio.wait_for returns the thread's result: the rest of the loop turn
AwaitReturns ==
    /\ cursor.phase = "waiting"
    /\ workers[cursor.i].state = "done"
    /\ LET result == workers[cursor.i].result
       IN  /\ results' = Append(results, UnifiedResult(cursor.i, result))
           /\ counters' = Tally(counters, result)
    /\ workers' = [workers EXCEPT ![cursor.i].state = "joined"]
    /\ cursor' = [i |-> cursor.i + 1, phase |-> "loop"]
    /\ UNCHANGED <<files, response>>
    /\ UNCHANGED <<advisor_vars, text_vars, parse_vars, service_vars>>

\* asyncio.wait_for raises TimeoutError while the thread is still running:
\* the rest of the loop turn; the thread is left to itself
Timeout ==
    /\ cursor.phase = "waiting"
    /\ workers[cursor.i].state = "running"
    /\ results' = Append(results, UnifiedResult(cursor.i, TimeoutResult))
    /\ counters' = Tally(counters, TimeoutResult)
    /\ workers' = [workers EXCEPT ![cursor.i].state = "abandoned"]
    /\ cursor' = [i |-> cursor.i + 1, phase |-> "loop"]
    /\ UNCHANGED <<files, response>>
    /\ UNCHANGED <<advisor_vars, text_vars, parse_vars, service_vars>>

\* an abandoned thread returns from extract_text_from_file after all
LateCompletion ==
    /\ \E i \in 1..Len(files) :
          /\ workers[i].state = "abandoned"
          /\ \E oe \in EnhanceOutcomesUnder(api_key),
                ol \in ParseOutcomesUnder(api_key) :
                workers' = [workers EXCEPT
                    ![i].state = "late",
                    ![i].result = extract_text_from_file(files[i].upload,
                                                         api_key, oe, ol)]
    /\ UNCHANGED <<files, cursor, results, counters, response>>
    /\ UNCHANGED <<advisor_vars, text_vars, parse_vars, service_vars>>

\* the loop is over: HTTP 200 with the results and the counters
Respond ==
    /\ cursor.phase = "loop"
    /\ files # <<>> /\ Len(files) <= MaxFilesPerRequest
    /\ cursor.i > Len(files)
    /\ response' = "200"
    /\ cursor' = [cursor EXCEPT !.phase = "responded"]
    /\ UNCHANGED <<files, workers, results, counters>>
    /\ UNCHANGED <<advisor_vars, text_vars, parse_vars, service_vars>>

NextPdf ==
    \/ RejectRequest
    \/ BeginFile
    \/ WorkerCompletes
    \/ AwaitReturns
    \/ Timeout
    \/ LateCompletion
    \/ Respond

SpecPdf == InitPdf /\ [][NextPdf]_vars

----------------------------------------------------------------------------
(* Properties of the threshold evaluator and the dialogue engine *)

\* the year, read as int() reads it, is a key of TAX_FREE_THRESHOLDS
KnownYear(y) == IntConvertible(y) /\ y.v \in DOMAIN TAX_FREE_THRESHOLDS

\* the last operation was TaxAdvisor.next_advisor_message
AfterNext == ret.op = "next_advisor_message"

\* C1: after a record is ingested into a fresh advisor, _is_below_threshold
\* is true if and only if the record's year (an int or a numeric string, read
\* as int() reads it) is a key of TAX_FREE_THRESHOLDS and the record's gross
\* income is a number strictly less than the threshold of that year.
C1_BelowIffKnownYearAndLess ==
    (ret.op = "set_extracted_data" /\ ret.fresh) =>
        (is_below_threshold(user_data) <=>
            /\ KnownYear(extracted_data.year)
            /\ extracted_data.gross_income.t = "int"
            /\ extracted_data.gross_income.v
                   < TAX_FREE_THRESHOLDS[extracted_data.year.v])

\* a fresh advisor has ingested 2021/5000 and is below the threshold
C1_Witness ==
    /\ ret.op = "set_extracted_data" /\ ret.fresh
    /\ extracted_data.year = IntV(2021)
    /\ extracted_data.gross_income = IntV(5000)
    /\ is_below_threshold(user_data)

\* C2: if the most recently ingested record has an absent year or a year
\* that is not a key of the threshold table, _is_below_threshold is false and
\* next_advisor_message does not return the refund statement, whatever was
\* ingested before.
C2_UnknownYearFailsClosed ==
    ~KnownYear(extracted_data.year) =>
        /\ ~is_below_threshold(user_data)
        /\ ~(AfterNext /\ ret.kind = "refund")

\* C3: when the current record is below threshold, next_advisor_message
\* returns the refund statement, calls no oracle and leaves history unchanged.
C3_BelowThresholdReturnsRefund ==
    (AfterNext /\ is_below_threshold(user_data)) =>
        /\ ret.kind = "refund"
        /\ ret.oracle = NotCalled
        /\ conversation_history = ret.hist_before

\* C4: when the record is not below threshold and history holds no summary,
\* next_advisor_message returns the summary, the summary is entry 1 of the
\* history afterwards and the prior entries follow it in their order.
C4_SummaryInsertedAtHead ==
    (AfterNext /\ ~is_below_threshold(user_data)
        /\ ~SummaryPresent(ret.hist_before)) =>
        /\ ret.kind = "summary"
        /\ ret.content = build_initial_summary(extracted_data)
        /\ conversation_history # <<>>
        /\ Head(conversation_history) = Msg("assistant", ret.content)
        /\ Tail(conversation_history) = ret.hist_before

\* the summary was put in front of a history of two earlier turns
C4_Witness ==
    /\ AfterNext /\ ret.kind = "summary"
    /\ Len(ret.hist_before) = 2
    /\ ret.hist_before[1] # ret.hist_before[2]
    /\ Len(conversation_history) = 3

\* C5: in the questioning state, when the oracle returns a non-empty reply r,
\* next_advisor_message returns r and history is the history before with one
\* entry (assistant, r) appended; no system entry is stored.
C5_ReplyAppended ==
    (AfterNext /\ ~is_below_threshold(user_data)
        /\ SummaryPresent(ret.hist_before) /\ ret.oracle.t = "reply") =>
        /\ ret.kind = "reply"
        /\ ret.content = ret.oracle.c
        /\ conversation_history
              = Append(ret.hist_before, Msg("assistant", ret.oracle.c))
        /\ \A i \in 1..Len(conversation_history) :
              conversation_history[i].role # "system"

\* an oracle reply was appended after the summary and a user turn
C5_Witness ==
    /\ AfterNext /\ ret.kind = "reply" /\ ret.oracle.t = "reply"
    /\ Len(ret.hist_before) = 2
    /\ conversation_history[3] = Msg("assistant", ret.oracle.c)

\* C6: if the oracle call fails or returns empty content, the engine returns
\* the sentinel instead of raising and history is as before the invocation.
C6_OracleFailureYieldsSentinel ==
    (AfterNext /\ ret.oracle.t \in {"timeout", "service_error", "empty"}) =>
        /\ ret.kind = "sentinel"
        /\ conversation_history = ret.hist_before

\* C7: no operation of the advisor removes a year from filed_years.
C7_FiledYearsMonotone == [][filed_years \subseteq filed_years']_vars

\* a second year was ingested and the first one is still filed
C7_Witness ==
    /\ ret.op = "set_extracted_data"
    /\ Cardinality(filed_years) >= 2
    /\ extracted_data.year \in filed_years

\* C8: after /extract of a document, all record state of the session
\* (advisor.extracted_data, advisor.user_data, Memory.extracted_data) holds
\* only that document's fields.
C8_RecordReplacedWholesale ==
    (ret.op = "extract_fields" /\ ret.kind = "none") =>
        /\ memory_data = extracted_data
        /\ Get(user_data, "year") = Get(extracted_data, "year")
        /\ Get(user_data, "gross_income") = Get(extracted_data, "gross_income")
        /\ Get(user_data, "income_tax_paid")
              = Get(extracted_data, "income_tax_paid")

\* C9: _is_below_threshold returns a boolean and, whenever it returns true,
\* _early_exit_summary returns a message without raising.
C9_ThresholdEvaluatorTotal ==
    /\ is_below_threshold(user_data) \in BOOLEAN
    /\ is_below_threshold(user_data) =>
          early_exit_summary(user_data).kind = "refund"

\* C10: clean_text is idempotent: clean_text(clean_text(x)) = clean_text(x).
C10_CleanTextIdempotent ==
    clean_pc = "recleaned" => text_twice = text_once

----------------------------------------------------------------------------
(* Properties of the numeric repair *)

\* the blank-separated words of a text
BeforeRepair(text) == StripLines(RemoveSpecial(CollapseWhitespace(text)))

\* a word that is a digit token
DigitToken(w) == w # <<>> /\ \A i \in 1..Len(w) : IsDigit(w[i])

\* the repair predicate: 4 to 6 digits, value in [1000, 999999], and length
\* at least 5 or value above 2000
MeetsRepairPredicate(w) ==
    /\ Len(w) \in 4..6
    /\ ToInt(w) >= 1000 /\ ToInt(w) <= 999999
    /\ (Len(w) >= 5 \/ ToInt(w) > 2000)

\* C11: every standalone digit token that meets the repair predicate leaves
\* clean_text with one decimal point two digits from the right; every 4-digit
\* token of value at most 2000 and every token shorter than 4 digits leaves
\* it unchanged.  The tokens are those of the text the repair pass works on.
C11_RepairInsertsOnePoint ==
    clean_pc # "input" =>
        LET before == Words(BeforeRepair(text_in))
            after == Words(text_once)
        IN  /\ Len(after) = Len(before)
            /\ \A k \in 1..Len(before) :
                  DigitToken(before[k]) =>
                    /\ MeetsRepairPredicate(before[k]) =>
                          /\ after[k] = InsertPoint(before[k])
                          /\ Cardinality({i \in 1..Len(after[k]) :
                                            after[k][i] = "."}) = 1
                    /\ (Len(before[k]) < 4
                          \/ (Len(before[k]) = 4 /\ ToInt(before[k]) <= 2000))
                          => after[k] = before[k]

\* the 6-digit token 220022 became 2200.22 and the token 2000 stayed
C11_Witness ==
    /\ clean_pc = "cleaned"
    /\ \/ /\ text_in = <<"2", "2", "0", "0", "2", "2">>
          /\ text_once = <<"2", "2", "0", "0", ".", "2", "2">>
       \/ /\ text_in = <<"2", "0", "0", "0">>
          /\ text_once = <<"2", "0", "0", "0">>

----------------------------------------------------------------------------
(* Properties of the field extractor *)

GrossLabel == <<"Bruttoarbeitslohn">>
GrossAmount == <<"2", ".", "0", "3", "3", ",", "0", "0">>

\* the text contains "Bruttoarbeitslohn 2.033,00"
ContainsGross(toks) ==
    \E i \in 1..(Len(toks) - 1) :
        toks[i] = GrossLabel /\ toks[i + 1] = GrossAmount

\* C12: for every text that contains "Bruttoarbeitslohn 2.033,00" the
\* extractor returns the gross income 2033.00, whatever else matches.
C12_GrossIncomeExtracted ==
    (parsed.done /\ ContainsGross(document))
        => parsed.result.bruttolohn.num = 2033 * parsed.result.bruttolohn.den

\* C13: when the text holds "Veranlagungszeitraum:" followed by AB.CD the
\* returned year is 2000 + CD: the first group is ignored and the bare
\* four-digit scan is not used.
C13_LabelledYearFromSecondGroup ==
    (parsed.done /\ YearMatch(document) # 0)
        => LET tok == document[YearMatch(document) + 1]
           IN  parsed.result.year
                   = IntV(2000 + 10 * DigitVal[tok[4]] + DigitVal[tok[5]])

C13_Witness ==
    /\ parsed.done
    /\ document = <<<<"Veranlagungszeitraum", ":">>,
                    <<"1", "9", ".", "9", "9">>, <<"Arbeitgeber">>,
                    <<"Acme">>, <<"1", "9", "9", "9">>>>
    /\ parsed.result.employer = <<"Acme">>
    /\ parsed.result.year = IntV(2099)

\* C14: the returned tax year is absent or an integer in 2000..2099, from
\* the labelled rule and from the fallback scan alike.
C14_YearInCentury ==
    parsed.done
        => \/ parsed.result.year = PyNone
           \/ /\ parsed.result.year.t = "int"
              /\ parsed.result.year.v \in 2000..2099

----------------------------------------------------------------------------
(* Properties of the extraction pipeline *)

\* C15: without a credential or on an oracle error enhance_text_with_llm
\* returns its input unchanged and parse_with_llm returns exactly
\* parse_german_tax_document(text); a response that is not JSON gives the
\* deterministic result as well; no error reaches the caller.
C15_OracleFailureFallsBack ==
    /\ (reply.op = "enhance_text_with_llm" /\ reply.enhance \in {"no_key", "error"})
           => (reply.text = upload.text /\ ~reply.raised)
    /\ (reply.op = "parse_with_llm" /\ reply.llm \in {"no_key", "error", "invalid_json"})
           => /\ reply.value.json = "object"
              /\ reply.value.success = "absent"
              /\ reply.value.result = parse_german_tax_document(upload.text)
              /\ ~reply.raised

C15_Witness ==
    /\ reply.op = "parse_with_llm"
    /\ reply.llm = "invalid_json"
    /\ upload.text = <<<<"Arbeitgeber">>, <<"Acme">>>>
    /\ reply.value.result.employer = <<"Acme">>

\* C16: a PDF that opens, has a page and holds text is reported with
\* success true whatever the oracle does; success is false only for an
\* unreadable document or an empty extraction.
C16_SuccessIffTextExtracted ==
    reply.op = "extract_text_from_file"
        => (reply.success <=> /\ upload.kind = "pdf"
                              /\ upload.page_count >= 1
                              /\ upload.text # <<>>)

----------------------------------------------------------------------------
(* Properties of the endpoint *)

\* the extraction of file i has timed out
TimedOut(w, i) == w[i].state \in {"abandoned", "late"}

\* C17: a file whose extraction times out is reported exactly once, as
\* failed with empty text, page_count 0 and character_count 0, and is not
\* retried; the late completion of its thread changes neither the results
\* nor the counters.
C17_TimeoutReportedOnce ==
    [][/\ \A i \in 1..Len(files) :
            TimedOut(workers', i)
                => /\ Cardinality({k \in 1..Len(results') :
                                      results'[k].file = i}) = 1
                   /\ results'[i] = ErrorEntry(i, "timeout")
                   /\ workers'[i].starts = 1
       /\ counters'.failed_extractions
              = Cardinality({k \in 1..Len(results') :
                                results'[k].status = "error"})
       /\ (\E i \in 1..Len(files) :
               workers[i].state = "abandoned" /\ workers'[i].state = "late")
              => UNCHANGED <<results, counters, cursor, response>>]_vars

C17_Witness ==
    /\ response = "200"
    /\ Len(files) = 2
    /\ workers[1].state = "late"
    /\ workers[1].result.success
    /\ results[1] = ErrorEntry(1, "timeout")
    /\ results[2].status = "success"
    /\ counters.failed_extractions = 1
    /\ counters.successful_extractions = 1

----------------------------------------------------------------------------
(* Properties of the request handlers *)

\* C18: the conversation state is scoped per session: no interleaving of
\* the requests of two sessions lets one session's request change or read
\* the history, record or filed years of the other.  Hence the first
\* request served for a session finds an empty conversation state, not
\* one that the requests of another session have filled.
C18_SessionsIsolated ==
    [][(owners' # owners /\ owners # {})
          => /\ conversation_history = <<>>
             /\ extracted_data = EmptyDict
             /\ user_data = EmptyUserData
             /\ filed_years = {}]_vars

\* C19: the done flag that fill_form returns is true exactly when the
\* returned advisor message contains one of the fixed completion keywords;
\* it depends on nothing else.
C19_DoneIffKeyword ==
    (ret.op = "fill_form" /\ ret.kind # "raise")
        => (ret.done <=> KeywordsIn(ret.content) \cap done_keywords # {})

C19_Witness ==
    /\ ret.op = "fill_form"
    /\ ret.content = "summary"
    /\ ret.done
    /\ Len(conversation_history) = 2

----------------------------------------------------------------------------
(* Properties of the dialogue ordering *)

\* C20: after the invocation that returned the summary, the next
\* invocation of next_advisor_message does not return a summary again but
\* goes on to the oracle, for every record that is not below the threshold,
\* the record of a failed extraction included.
C20_SummaryOnlyOnce ==
    [][(/\ AfterNext
        /\ ret.kind = "summary"
        /\ ret'.op = "next_advisor_message"
        /\ ~is_below_threshold(user_data)
        /\ ~SortRaises(filed_years))
          => (ret'.kind # "summary" /\ ret'.oracle # NotCalled)]_vars

\* C21: there is no way back to the summary: once an invocation in a
\* session has returned the refund statement or a reply of the oracle, no
\* later invocation in that session returns the summary message, whatever
\* records are ingested in between.  Stated for requests served while one
\* session only has used the advisor.
C21_NoSummaryAfterAdvice ==
    [][(/\ advised
        /\ Cardinality(owners') = 1
        /\ ret'.op \in {"generate_questions", "fill_form"})
          => ret'.kind # "summary"]_vars

\* the entries of old are found in new at increasing positions
RECURSIVE OrderKept(_, _)
OrderKept(old, new) ==
    IF old = <<>> THEN TRUE
    ELSE IF new = <<>> THEN FALSE
    ELSE IF Head(old) = Head(new) THEN OrderKept(Tail(old), Tail(new))
    ELSE OrderKept(old, Tail(new))

C23_ContinuesWithoutEmployer ==
    (parsed.done /\ EmployerFrom(document, 1) = <<"Unknown">>)
        => /\ parsed.result.error = "none"
           /\ LET group == BruttolohnMatch(document)
                  f == FloatOf(GermanToDecimal(group))
              IN  (group # <<>> /\ f.ok)
                      => parsed.result.bruttolohn = f.value

----------------------------------------------------------------------------
(* extract_text_from_file without a credential, on texts with bare numbers: *)
(* the extracted text is normalized by clean_text and the normalized text   *)
(* is handed to parse_german_tax_document                                   *)

\* a four-digit year and a five-digit amount without separators
YearToken == <<"2", "0", "2", "4">>
AmountToken == <<"5", "8", "0", "7", "5">>

\* the tokens the texts with bare numbers are drawn from
NumberVocabulary ==
    {<<"Veranlagungszeitraum", ":">>, YearToken, <<"Arbeitgeber">>,
     <<"Acme">>, <<"Bruttoarbeitslohn">>, AmountToken}

NumberDocuments == UNION {[1..n -> NumberVocabulary] : n \in 0..MaxTokens}

\* the text of a page has been read
InitRepair ==
    /\ InitAdvisor
    /\ InitService
    /\ InitEndpoint
    /\ document \in NumberDocuments
    /\ parsed = [done |-> FALSE, result |-> DefaultResult]
    /\ text_in = Flatten(document)
    /\ text_once = <<>>
    /\ text_twice = <<>>
    /\ clean_pc = "input"

\* cleaned_text = clean_text(extracted_text)
CleanExtracted ==
    /\ clean_pc = "input"
    /\ text_once' = clean_text(text_in)
    /\ clean_pc' = "cleaned"
    /\ UNCHANGED <<text_in, text_twice>>
    /\ UNCHANGED <<advisor_vars, extractor_vars>>

\* parse_with_llm(enhanced_text, filename) without a credential: the
\* normalized text goes to parse_german_tax_document
ParseCleaned ==
    /\ clean_pc = "cleaned"
    /\ ~parsed.done
    /\ parsed' = [done |-> TRUE,
                  result |-> parse_german_tax_document(Tokens(text_once))]
    /\ UNCHANGED document
    /\ UNCHANGED <<advisor_vars, text_vars, service_vars, endpoint_vars>>

NextRepair ==
    \/ CleanExtracted
    \/ ParseCleaned

SpecRepair == InitRepair /\ [][NextRepair]_vars

\* C24: the numeric repair leaves a four-digit tax year alone where the
\* context shows it to be a year: the token 2024 directly after the label
\* "Veranlagungszeitraum:" is 2024 in the normalized text as well.
C24_LabelledYearUntouched ==
    clean_pc = "cleaned"
        => \A i \in 1..(Len(document) - 1) :
               (/\ document[i] = <<"Veranlagungszeitraum", ":">>
                /\ document[i + 1] = YearToken)
                   => Tokens(text_once)[i + 1] = YearToken

\* C25: the point that the numeric repair puts into a digits-only amount
\* after the label Bruttoarbeitslohn is taken out again by the conversion of
\* the German numeral, so the gross income extracted from the normalized
\* text is the one extracted from the text as it was read.
C25_RepairUndoneByConversion ==
    (/\ parsed.done
     /\ clean_pc = "cleaned"
     /\ \E i \in 1..(Len(document) - 1) :
            /\ document[i] = <<"Bruttoarbeitslohn">>
            /\ document[i + 1] = AmountToken)
        => parsed.result.bruttolohn
               = parse_german_tax_document(document).bruttolohn

====
